---------------------------- MODULE Spec2Model ----------------------------
(***************************************************************************)
(* A model of rl_traffic_controller: the DQN agent of agent.py (replay     *)
(* memory, epsilon-greedy action selection, optimizer step, soft target    *)
(* update, episode driver) and the SUMO controller of controllers.py       *)
(* (phase debounce, sub-stepping, detector accounting).                    *)
(*                                                                         *)
(* Floats are fixed-point integers.  Hyper-parameters (GAMMA, TAU, the     *)
(* epsilons, the uniform draw) are counted in 1/Scale; network weights,    *)
(* Q-values and rewards are counted in 1/WeightOne.                        *)
(***************************************************************************)
EXTENDS Integers, Sequences, FiniteSets, TLC

(***************************************************************************)
(* Bounds of the model.                                                    *)
(***************************************************************************)
\* capacity K of the replay memory (ReplayMemory(2000) in the source)
Capacity == 2
\* batch size (32 in the source), kept <= Capacity as in the source
BATCH_SIZE == 2
\* pushes made in the replay-memory and optimizer specifications
MaxPushes == 4
\* optimize_model and soft-update calls made in the optimizer specification
MaxCalls == 3
\* select_action calls made in the action-selector specification
MaxSelects == 3
\* num_episodes of Agent.main is drawn from 0..MaxEpisodes
MaxEpisodes == 2
\* the environment's step budget: from the MaxSteps-th step of a run on,
\* every step signals done
MaxSteps == 3

\* the controller: the vehicles the detectors report in all
MaxVehicles == 2

(***************************************************************************)
(* Fixed point.  Scale is 1.0 for hyper-parameters and for the uniform     *)
(* draw; WeightOne is 1.0 for weights, Q-values and rewards.               *)
(***************************************************************************)
Scale == 10000
WeightOne == 10000000

(***************************************************************************)
(* Class attributes of Agent (agent.py, lines 116-124).                    *)
(***************************************************************************)
\* GAMMA = 0.99
GAMMA == 9900
\* EPS_START = 0.9
EPS_START == 9000
\* EPS_END = 0.05
EPS_END == 500
\* EPS_DECAY = 1000 (steps)
EPS_DECAY == 1000
\* TAU = 0.005
TAU == 50
\* LR = 1e-4
LR == 1
\* n_actions = 4
n_actions == 4

Actions == 0..(n_actions - 1)

(***************************************************************************)
(* Transition = namedtuple('Transition', state action next_state reward)   *)
(***************************************************************************)
\* None, and a tensor holding the observation s
None == <<>>

Tensor(s) == <<s>>

Transition(s, a, ns, r) == [state |-> s, action |-> a, next_state |-> ns, reward |-> r]

VARIABLES
    memory,         \* ReplayMemory.memory, a deque(maxlen = Capacity), oldest first
    push_log,       \* history: every Transition pushed, in push order
    sample_n,       \* argument of the last ReplayMemory.sample call (-1: none yet)
    sample_status,  \* "none" | "ok" | "ValueError" : outcome of the last sample call
    sample_slots,   \* the buffer positions the last sample drew, in draw order
    sample_out,     \* the list the last sample call returned
    last_op,        \* history: the operation called last
    hyper,          \* the class attributes EPS_START, EPS_END, TAU (a test may force them)
    policy_net,     \* Agent.policy_net: its weights, one per action
    target_net,     \* Agent.target_net: its weights, one per action
    opt_steps,      \* Agent.optimizer: the number of optimizer.step() calls applied
    steps_done,     \* Agent.steps_done
    select_calls,   \* history: the number of select_action calls
    sel_state,      \* argument of the last select_action call
    sel_u,          \* the uniform draw random.random() of the last select_action call
    sel_branch,     \* "none" | "exploit" | "explore": the branch the last call took
    sel_action,     \* the action the last select_action call returned
    harness_calls,  \* the optimize_model and soft-update calls made in the optimizer specification
    opt_result,     \* "none" | "skipped" | "stepped" | "RuntimeError" | "ValueError"
    batches_drawn,  \* history: the number of memory.sample calls optimize_model made
    batch_terminal, \* history: the last batch held terminal transitions only
    loss_finite,    \* history: the loss optimize_model last computed was finite
    bootstrap,      \* history: the set of GAMMA * V(s') terms of the last batch's targets
    pc,             \* Agent.main: the statement the driver is at ("idle": not running)
    num_episodes,   \* Agent.main: its argument
    i_episode,      \* Agent.main: the episode loop's index
    t,              \* Agent.main: the step loop's index
    state,          \* Agent.main: the local state
    reward,         \* Agent.main: the local reward
    terminated,     \* Agent.main: the flag env.step returned
    truncated,      \* Agent.main: the flag env.step returned
    next_state,     \* Agent.main: the local next_state
    episode_durations, \* Agent.episode_durations
    done_log,       \* history: for every done the environment signalled, the step it was on
    stack_name,     \* train: its argument stack_name ("none": train is not running)
    load_nets,      \* train: its argument load_nets
    ckpt_policy,    \* the file models/<stack>_policy_net.pt: "ok" if it loads, else "fails"
    ckpt_target,    \* the file models/<stack>_target_net.pt: "ok" if it loads, else "fails"
    agent_made,     \* train: init_agent has returned an Agent
    env_made,       \* train: Environment() was constructed
    resets,         \* history: the env.reset() calls Agent.main has made
    env_steps,      \* history: the env.step() calls Agent.main has made
    soft_updates,   \* history: the soft updates Agent.main has made
    connection,     \* traci: "none" | "open" | "closed", the state of the default connection
    step_time,      \* SUMOController.step_time, in milliseconds
    prev_phase,     \* SUMOController.prev_phase
    detector_counts,\* SUMOController.detector_counts, a defaultdict(int)
    throughput,     \* SUMOController.throughput
    signal,         \* the simulator: the state string its traffic light was last given
    sim_over,       \* the simulator: getMinExpectedNumber() is 0
    cpc,            \* the controller method in progress: "idle" | "step" | "after_step"
    caller,         \* what called step(): "set_phase_changed" | "set_phase_same" | "step"
    req_phase,      \* set_traffic_phase: its argument phase_index
    steps_left,     \* step: the iterations its loop has left
    step_ret,       \* step: its return value
    ret,            \* the value the last set_traffic_phase or step call returned
    got,            \* the value the last get_throughput call returned
    call_log,       \* history: what the call in progress (or the last call) did, in order
    call_prev,      \* history: prev_phase when the last set_traffic_phase call began
    en_total,       \* history: per edge, the entry-detector readings since the last reset
    ex_total,       \* history: per edge, the exit-detector readings since the last reset
    exit_seen,      \* history: all exit-detector readings since construction
    drained,        \* history: the sum of the values get_throughput returned
    detected,       \* history: all detector readings since construction
    commanded       \* history: the string of the last setRedYellowGreenState call

memVars == <<memory, push_log, sample_n, sample_status, sample_slots, sample_out, last_op>>

netVars == <<hyper, policy_net, target_net, opt_steps>>

selVars == <<steps_done, select_calls, sel_state, sel_u, sel_branch, sel_action>>

optVars == <<harness_calls, opt_result, batches_drawn, batch_terminal, loss_finite, bootstrap>>

mainVars == <<pc, num_episodes, i_episode, t, state, reward, terminated, truncated,
              next_state, episode_durations, done_log>>

ctlVars == <<connection, step_time, prev_phase, detector_counts, throughput, signal,
             sim_over, cpc, caller, req_phase, steps_left, step_ret, ret, got, call_log,
             call_prev, en_total, ex_total, exit_seen, drained, detected, commanded>>

trainVars == <<stack_name, load_nets, ckpt_policy, ckpt_target, agent_made, env_made>>

countVars == <<resets, env_steps, soft_updates>>

agentVars == <<memVars, netVars, selVars, optVars, mainVars, trainVars, countVars>>

vars == <<agentVars, ctlVars>>

(***************************************************************************)
(* ReplayMemory.                                                           *)
(***************************************************************************)
\* deque.append on a deque(maxlen = cap): the element goes to the right end,
\* and a full deque drops its leftmost element.  (A deque of maxlen 0 keeps
\* nothing.)
DequeAppendKeepOldest(dq, cap, x) ==
    IF Len(dq) >= cap THEN dq ELSE Append(dq, x)

DequeAppend(dq, cap, x) ==
    IF cap = 0 THEN <<>>
    ELSE IF Len(dq) >= cap THEN Append(Tail(dq), x)
    ELSE Append(dq, x)

\* a memory that starts over when it is full
pushClearsWhenFull(mem, tr) ==
    IF Len(mem) >= Capacity THEN <<tr>> ELSE Append(mem, tr)

\* ReplayMemory.push: self.memory.append(Transition(*args))
push(mem, tr) == DequeAppend(mem, Capacity, tr)

Range(q) == {q[i] : i \in DOMAIN q}

\* The injective sequences of length n over 1..len: the position lists that
\* random.sample(population, n) can draw (n distinct positions, any order).
RECURSIVE InjSeqs(_, _)
InjSeqs(n, len) ==
    IF n = 0 THEN {<<>>}
    ELSE UNION {{Append(p, i) : i \in (1..len) \ Range(p)} : p \in InjSeqs(n - 1, len)}

\* The position lists a draw with replacement would produce.
RECURSIVE AllSeqs(_, _)
AllSeqs(n, len) ==
    IF n = 0 THEN {<<>>}
    ELSE UNION {{Append(p, i) : i \in 1..len} : p \in AllSeqs(n - 1, len)}

\* random.sample raises ValueError when the sample is larger than the
\* population or negative.
SampleRaises(mem, n) == n > Len(mem) \/ n < 0

SampleSlotsWithReplacement(mem, n) == AllSeqs(n, Len(mem))

\* the position lists random.sample(self.memory, n) may draw when it does
\* not raise
SampleSlots(mem, n) == InjSeqs(n, Len(mem))

\* the list returned for a position list
Picked(mem, slots) == [i \in 1..Len(slots) |-> mem[slots[i]]]

(***************************************************************************)
(* The Q-network.  The model's network is linear without bias: one weight  *)
(* per action, Q(s)[a] = w[a] * s for an observation s in {-1, 1}.  A net  *)
(* is the sequence of its weights, the weight of action a at index a + 1.  *)
(***************************************************************************)
Obs == {-1, 1}

\* DQN.forward
Forward(net, s) == [i \in 1..n_actions |-> net[i] * s]

ArgMaxLast(q) ==
    CHOOSE a \in Actions :
        /\ \A b \in Actions : q[b + 1] <= q[a + 1]
        /\ \A b \in Actions : b > a => q[b + 1] < q[a + 1]

\* t.max(1).indices: the index of the largest value, the first one on a tie
ArgMax(q) ==
    CHOOSE a \in Actions :
        /\ \A b \in Actions : q[b + 1] <= q[a + 1]
        /\ \A b \in Actions : b < a => q[b + 1] < q[a + 1]

\* t.max(1).values
MaxValue(q) == q[ArgMax(q) + 1]

\* x / d rounded to the nearest integer (d > 0): a float product, in fixed point
RoundDiv(x, d) == (2 * x + d) \div (2 * d)

(***************************************************************************)
(* Agent.select_action.                                                    *)
(***************************************************************************)
\* math.exp(-1. * steps / EPS_DECAY) in 1/Scale, by exp(-1/EPS_DECAY) ~ 1 - 1/EPS_DECAY
RECURSIVE ExpDecay(_)
ExpDecay(steps) ==
    IF steps = 0 THEN Scale
    ELSE (ExpDecay(steps - 1) * (EPS_DECAY - 1)) \div EPS_DECAY

\* eps_threshold = EPS_END + (EPS_START - EPS_END) * exp(-steps_done / EPS_DECAY)
EpsThreshold(h, steps) ==
    h.EPS_END + ((h.EPS_START - h.EPS_END) * ExpDecay(steps)) \div Scale

\* if sample > eps_threshold: the greedy branch
Exploits(u, eps) == u > eps

NextStepsDoneExploreOnly(steps, exploit) == IF exploit THEN steps ELSE steps + 1

\* cls.steps_done += 1, before the branch
NextStepsDone(steps, exploit) == steps + 1

\* the values random.random() takes in the model, in 1/Scale: all in [0, 1)
USamples == {0, 9500}

select_action(s, u) ==
    LET exploit == Exploits(u, EpsThreshold(hyper, steps_done)) IN
    /\ steps_done' = NextStepsDone(steps_done, exploit)
    /\ select_calls' = select_calls + 1
    /\ sel_state' = s
    /\ sel_u' = u
    /\ IF exploit
       THEN /\ sel_branch' = "exploit"
            /\ sel_action' = ArgMax(Forward(policy_net, s))
       ELSE /\ sel_branch' = "explore"
            \* random.randint(0, 3)
            /\ \E rnd \in 0..3 : sel_action' = rnd

(***************************************************************************)
(* Agent.optimize_model.                                                   *)
(***************************************************************************)
TooFewOffByOne(mem) == Len(mem) < BATCH_SIZE - 1

\* if len(cls.memory) < cls.BATCH_SIZE: return
TooFew(mem) == Len(mem) < BATCH_SIZE

AllTerminal(batch) == \A i \in 1..Len(batch) : batch[i].next_state = None

\* torch.cat of the non-final next states raises RuntimeError on an empty list
CatRaises(batch) == AllTerminal(batch)

\* next_state_values: max_a target_net(s') for a non-final s', 0 for a final one
NextStateValue(tnet, tr) ==
    IF tr.next_state = None THEN 0 ELSE MaxValue(Forward(tnet, tr.next_state[1]))

\* the GAMMA term of expected_state_action_values
Discounted(tnet, tr) == RoundDiv(NextStateValue(tnet, tr) * GAMMA, Scale)

\* float('inf'): a value above every finite one of the model, kept by every sum
Inf == 2000000000

\* expected_state_action_values = (next_state_values * GAMMA) + reward_batch
Expected(tnet, tr) == IF tr.reward = Inf THEN Inf ELSE Discounted(tnet, tr) + tr.reward

\* state_action_values: policy_net(state).gather(1, action)
StateActionValue(pnet, tr) == Forward(pnet, tr.state[1])[tr.action + 1]

Clamp(x, lo, hi) == IF x < lo THEN lo ELSE IF x > hi THEN hi ELSE x

\* d SmoothL1Loss / d Q(s, a) for one entry, up to the 1/BATCH_SIZE of the mean
HuberSlope(pnet, tnet, tr) ==
    Clamp(StateActionValue(pnet, tr) - Expected(tnet, tr), -WeightOne, WeightOne)

\* loss.backward(): the gradient of the loss in the weight of action a
\* (d Q(s, a) / d w[a] = s), up to the positive factor 1/BATCH_SIZE
RECURSIVE Gradient(_, _, _, _)
Gradient(pnet, tnet, batch, a) ==
    IF batch = <<>> THEN 0
    ELSE (IF Head(batch).action = a
          THEN HuberSlope(pnet, tnet, Head(batch)) * Head(batch).state[1]
          ELSE 0) + Gradient(pnet, tnet, Tail(batch), a)

\* loss = criterion(...): the mean of the entries' losses is finite iff every target is
\* (the Q-values of the finite weights are finite)
LossFinite(tnet, batch) == \A i \in 1..Len(batch) : Expected(tnet, batch[i]) # Inf

Sign(x) == IF x > 0 THEN 1 ELSE IF x < 0 THEN -1 ELSE 0

\* one LR step, in weight units
LRStep == (LR * WeightOne) \div Scale

\* optimizer.step(): AdamW moves each weight by about LR against the sign of
\* its (clipped) gradient, and leaves a weight with no gradient where it is
OptimizerStep(pnet, tnet, batch) ==
    [i \in 1..n_actions |-> pnet[i] - LRStep * Sign(Gradient(pnet, tnet, batch, i - 1))]

optimize_model ==
    IF TooFew(memory)
    THEN /\ opt_result' = "skipped"
         /\ UNCHANGED <<policy_net, opt_steps, batches_drawn, batch_terminal, loss_finite, bootstrap>>
    ELSE IF SampleRaises(memory, BATCH_SIZE)
    THEN /\ opt_result' = "ValueError"
         /\ batches_drawn' = batches_drawn + 1
         /\ UNCHANGED <<policy_net, opt_steps, batch_terminal, loss_finite, bootstrap>>
    ELSE \E slots \in SampleSlots(memory, BATCH_SIZE) :
            LET batch == Picked(memory, slots) IN
            /\ batches_drawn' = batches_drawn + 1
            /\ batch_terminal' = AllTerminal(batch)
            /\ IF CatRaises(batch)
               THEN /\ opt_result' = "RuntimeError"
                    /\ bootstrap' = {}
                    /\ UNCHANGED <<policy_net, opt_steps, loss_finite>>
               ELSE /\ opt_result' = "stepped"
                    /\ loss_finite' = LossFinite(target_net, batch)
                    /\ bootstrap' = {Discounted(target_net, batch[i]) : i \in 1..Len(batch)}
                    /\ policy_net' = OptimizerStep(policy_net, target_net, batch)
                    /\ opt_steps' = opt_steps + 1

(***************************************************************************)
(* The soft update of the target network (Agent.main, lines 273-280).      *)
(***************************************************************************)
SoftUpdateSwapped(pnet, tnet, tau) ==
    [i \in 1..n_actions |-> RoundDiv(tnet[i] * tau + pnet[i] * (Scale - tau), Scale)]

\* target[key] = policy[key] * TAU + target[key] * (1 - TAU), for every key
SoftUpdate(pnet, tnet, tau) ==
    [i \in 1..n_actions |-> RoundDiv(pnet[i] * tau + tnet[i] * (Scale - tau), Scale)]

\* the soft update, its result loaded into the policy network
soft_update_loads_policy ==
    /\ policy_net' = SoftUpdate(policy_net, target_net, hyper.TAU)
    /\ target_net' = target_net

\* cls.target_net.load_state_dict(target_net_state_dict); the policy's state dict is read
soft_update ==
    /\ target_net' = SoftUpdate(policy_net, target_net, hyper.TAU)
    /\ policy_net' = policy_net

(***************************************************************************)
(* SUMOController (controllers.py).  Identifiers are sequences of          *)
(* characters, so that detector[:4] and detector.endswith("n") are         *)
(* computed on the identifiers __init__ builds.  The module consts is not  *)
(* among the sources: its lists are taken from the documentation (the      *)
(* comment `ex: "E2TL_0_en"`, one amber string per phase).                 *)
(***************************************************************************)
\* consts.SIMULATION_EDGE_IDS
SIMULATION_EDGE_IDS == << <<"E", "2", "T", "L">>, <<"N", "2", "T", "L">> >>

\* consts.SIMULATION_PHASES, the state string of each phase (two phases here)
SIMULATION_PHASES == <<"G0", "G1">>

\* consts.SIMULATION_AMBER_PHASES, the amber string that ends each phase
SIMULATION_AMBER_PHASES == <<"y0", "y1">>

\* range(0, 4) of the detector construction
Lanes == 0..3

\* str(lane_num)
Str(n) == << <<"0", "1", "2", "3">>[n + 1] >>

\* prefix + "en", prefix + "ex" where prefix = edge + "_" + str(lane_num) + "_"
DetectorId(edge, lane_num, suffix) == edge \o <<"_">> \o Str(lane_num) \o <<"_">> \o suffix

\* self.detectors: for each edge, for each lane, the entry then the exit detector
RECURSIVE LaneDetectors(_, _)
LaneDetectors(edge, lane_num) ==
    IF lane_num \notin Lanes THEN <<>>
    ELSE << DetectorId(edge, lane_num, <<"e", "n">>), DetectorId(edge, lane_num, <<"e", "x">>) >>
         \o LaneDetectors(edge, lane_num + 1)

RECURSIVE ConstructDetectors(_, _)
ConstructDetectors(edges, i) ==
    IF i > Len(edges) THEN <<>>
    ELSE LaneDetectors(edges[i], 0) \o ConstructDetectors(edges, i + 1)

detectors == ConstructDetectors(SIMULATION_EDGE_IDS, 1)

\* detector.endswith("n")
EndsWithN(detector) == Len(detector) > 0 /\ detector[Len(detector)] = "n"

\* detector[:3], a slice one character short
KeyOfShort(detector) == SubSeq(detector, 1, IF Len(detector) < 3 THEN Len(detector) ELSE 3)

\* detector[:4]
KeyOf(detector) == SubSeq(detector, 1, IF Len(detector) < 4 THEN Len(detector) ELSE 4)

\* defaultdict(int): a missing key reads 0
Count(counts, key) == IF key \in DOMAIN counts THEN counts[key] ELSE 0

\* counts[key] += num on a defaultdict(int)
DictAdd(counts, key, num) ==
    IF key \in DOMAIN counts THEN [counts EXCEPT ![key] = @ + num]
    ELSE counts @@ (key :> num)

\* defaultdict(int)()
EmptyDict == [k \in {} |-> 0]

\* update_detectors, were the exit detectors left out of the accumulators
UpdateOneEntryOnly(counts, detector, num) ==
    IF EndsWithN(detector) THEN DictAdd(counts, KeyOf(detector), num)
    ELSE DictAdd(counts, KeyOf(detector), 0)

\* the body of the loop of update_detectors for one detector and its reading
UpdateOne(counts, detector, num) ==
    IF EndsWithN(detector) THEN DictAdd(counts, KeyOf(detector), num)
    ELSE DictAdd(counts, KeyOf(detector), 0 - num)

\* update_detectors on detector_counts: the detectors in order, readings[i] for detectors[i]
RECURSIVE UpdateCounts(_, _, _)
UpdateCounts(counts, readings, i) ==
    IF i > Len(detectors) THEN counts
    ELSE UpdateCounts(UpdateOne(counts, detectors[i], readings[i]), readings, i + 1)

\* update_detectors on throughput: the readings of the detectors of the else branch
RECURSIVE ThroughputGain(_, _)
ThroughputGain(readings, i) ==
    IF i > Len(detectors) THEN 0
    ELSE (IF EndsWithN(detectors[i]) THEN 0 ELSE readings[i]) + ThroughputGain(readings, i + 1)

\* sum(self.detector_counts.values())
RECURSIVE SumValues(_, _)
SumValues(counts, keys) ==
    IF keys = {} THEN 0
    ELSE LET k == CHOOSE x \in keys : TRUE IN counts[k] + SumValues(counts, keys \ {k})

get_vehicle_count == SumValues(detector_counts, DOMAIN detector_counts)

\* a Python list subscript: negative indexes count from the end
PyIndex(list, i) ==
    IF i >= 0 /\ i < Len(list) THEN list[i + 1]
    ELSE IF i < 0 /\ 0 - i <= Len(list) THEN list[Len(list) + i + 1]
    ELSE "IndexError"

\* range(steps + 1): one iteration too many
StepsForOneMore(seconds, st) == (seconds * 1000) \div st + 1

\* int(seconds / self.step_time), step_time in milliseconds
StepsFor(seconds, st) == (seconds * 1000) \div st

\* if self.prev_phase != phase_index, were it to hold of every request
PhaseChangesAlways(prev, phase_index) == TRUE

\* if self.prev_phase != phase_index
PhaseChanges(prev, phase_index) == prev # phase_index

\* one entry of the history of a call: the operation, its string and its number
Event(op, str, num) == [op |-> op, str |-> str, num |-> num]

\* traci.inductionloop.getIntervalVehicleNumber over self.detectors: the vectors of
\* readings, one per detector, that count at most b vehicles in all
RECURSIVE ReadingVectors(_)
ReadingVectors(b) ==
    IF b <= 0 THEN { [i \in 1..Len(detectors) |-> 0] }
    ELSE LET less == ReadingVectors(b - 1) IN
         less \cup { [v EXCEPT ![i] = @ + 1] : v \in less, i \in 1..Len(detectors) }

\* history: the readings of the detectors __init__ built for the e-th edge, the entry
\* ones (parity 1) or the exit ones (parity 0): detectors 8(e-1)+1 .. 8e, in pairs
RECURSIVE EdgeReadings(_, _, _, _)
EdgeReadings(readings, e, parity, lane_num) ==
    IF lane_num \notin Lanes THEN 0
    ELSE readings[8 * (e - 1) + 2 * lane_num + (IF parity = 1 THEN 1 ELSE 2)]
         + EdgeReadings(readings, e, parity, lane_num + 1)

RECURSIVE SumSeq(_, _)
SumSeq(f, i) == IF i > Len(f) THEN 0 ELSE f[i] + SumSeq(f, i + 1)

\* SUMOController.__init__(config_file, step_time), before start() is called
ConstructController(st) ==
    /\ connection = "none"
    /\ step_time = st
    /\ prev_phase = -1
    /\ detector_counts = EmptyDict
    /\ throughput = 0
    /\ signal = "none"
    /\ sim_over = FALSE
    /\ cpc = "idle"
    /\ caller = "none"
    /\ req_phase = -1
    /\ steps_left = 0
    /\ step_ret = TRUE
    /\ ret = TRUE
    /\ got = 0
    /\ call_log = <<>>
    /\ call_prev = -1
    /\ en_total = [e \in 1..Len(SIMULATION_EDGE_IDS) |-> 0]
    /\ ex_total = [e \in 1..Len(SIMULATION_EDGE_IDS) |-> 0]
    /\ exit_seen = 0
    /\ drained = 0
    /\ detected = 0
    /\ commanded = "none"

\* step_time: float = 1.0
DefaultStepTime == 1000

InitController == ConstructController(DefaultStepTime)

(***************************************************************************)
(* Construction: the class body of Agent (lines 116-135).                  *)
(***************************************************************************)
\* the weights a freshly constructed DQN may have
NetInits == { <<0, 0, 0, 0>>, <<-2000, 3000, 3000, 1000>> }

Defaults == [EPS_START |-> EPS_START, EPS_END |-> EPS_END, TAU |-> TAU]

InitReplay ==
    /\ memory = <<>>
    /\ push_log = <<>>
    /\ sample_n = -1
    /\ sample_status = "none"
    /\ sample_slots = <<>>
    /\ sample_out = <<>>
    /\ last_op = "init"

InitAgent ==
    /\ \E net \in NetInits :
          /\ policy_net = net
          \* target_net.load_state_dict(policy_net.state_dict())
          /\ target_net = net
    /\ opt_steps = 0
    /\ steps_done = 0
    /\ select_calls = 0
    /\ sel_state = 0
    /\ sel_u = -1
    /\ sel_branch = "none"
    /\ sel_action = -1
    /\ harness_calls = 0
    /\ opt_result = "none"
    /\ batches_drawn = 0
    /\ batch_terminal = FALSE
    /\ loss_finite = TRUE
    /\ bootstrap = {}
    /\ episode_durations = <<>>

\* Agent.main has done nothing yet
InitCounts ==
    /\ resets = 0
    /\ env_steps = 0
    /\ soft_updates = 0

\* train() is not running
InitNoTrain ==
    /\ InitCounts
    /\ stack_name = "none"
    /\ load_nets = FALSE
    /\ ckpt_policy = "none"
    /\ ckpt_target = "none"
    /\ agent_made = FALSE
    /\ env_made = FALSE

\* Agent.main is not running
InitIdle ==
    /\ InitNoTrain
    /\ pc = "idle"
    /\ num_episodes = 0
    /\ i_episode = 0
    /\ t = 0
    /\ state = None
    /\ reward = 0
    /\ terminated = FALSE
    /\ truncated = FALSE
    /\ next_state = None
    /\ done_log = <<>>

(***************************************************************************)
(* The replay-memory specification: push and sample called in any order.   *)
(***************************************************************************)
\* the Transitions pushed in the replay-memory and optimizer specifications
MemInputs ==
    { Transition(Tensor(1), 0, Tensor(-1), 0),
      Transition(Tensor(-1), 2, None, WeightOne),
      Transition(Tensor(1), 3, None, 2 * WeightOne) }

InitMemory ==
    /\ InitReplay
    /\ InitController
    /\ InitAgent
    /\ InitIdle
    /\ hyper = Defaults

MemPush ==
    /\ UNCHANGED ctlVars
    /\ UNCHANGED trainVars
    /\ UNCHANGED countVars
    /\ Len(push_log) < MaxPushes
    /\ \E tr \in MemInputs :
          /\ memory' = push(memory, tr)
          /\ push_log' = Append(push_log, tr)
    /\ last_op' = "push"
    /\ UNCHANGED <<sample_n, sample_status, sample_slots, sample_out>>
    /\ UNCHANGED <<netVars, selVars, optVars, mainVars>>

MemSample ==
    /\ UNCHANGED ctlVars
    /\ UNCHANGED trainVars
    /\ UNCHANGED countVars
    /\ \E n \in 0..(Capacity + 1) :
       /\ sample_n' = n
       /\ IF SampleRaises(memory, n)
          THEN /\ sample_status' = "ValueError"
               /\ sample_slots' = <<>>
               /\ sample_out' = <<>>
          ELSE /\ sample_status' = "ok"
               /\ \E slots \in SampleSlots(memory, n) :
                     /\ sample_slots' = slots
                     /\ sample_out' = Picked(memory, slots)
       /\ last_op' = "sample"
       /\ UNCHANGED <<memory, push_log>>
       /\ UNCHANGED <<netVars, selVars, optVars, mainVars>>

NextMemory == MemPush \/ MemSample

SpecMemory == InitMemory /\ [][NextMemory]_vars


(***************************************************************************)
(* The action-selector specification: select_action called on any state    *)
(* with any draw, with the default epsilons or with both forced to 0.      *)
(***************************************************************************)
ZeroEps == [Defaults EXCEPT !.EPS_START = 0, !.EPS_END = 0]

InitSelect ==
    /\ InitReplay
    /\ InitController
    /\ InitAgent
    /\ InitIdle
    /\ hyper \in {Defaults, ZeroEps}

SelSelect ==
    /\ UNCHANGED ctlVars
    /\ UNCHANGED trainVars
    /\ UNCHANGED countVars
    /\ select_calls < MaxSelects
    /\ \E s \in Obs, u \in USamples : select_action(s, u)
    /\ UNCHANGED <<memVars, netVars, optVars, mainVars>>

NextSelect == SelSelect

SpecSelect == InitSelect /\ [][NextSelect]_vars

(***************************************************************************)
(* The optimizer specification: push, optimize_model and the soft update   *)
(* called in any order, with TAU at its default, at 0 or at 1.             *)
(***************************************************************************)
TauValues == {0, TAU, Scale}

\* the Transitions pushed in the optimizer specification: those of the replay-memory
\* specification and one whose reward is not finite
OptInputs == MemInputs \cup { Transition(Tensor(-1), 1, Tensor(1), Inf) }

InitOptimize ==
    /\ InitReplay
    /\ InitController
    /\ InitAgent
    /\ InitIdle
    /\ hyper \in {[Defaults EXCEPT !.TAU = tau] : tau \in TauValues}

OptPush ==
    /\ UNCHANGED ctlVars
    /\ UNCHANGED trainVars
    /\ UNCHANGED countVars
    /\ Len(push_log) < MaxPushes
    /\ \E tr \in OptInputs :
          /\ memory' = push(memory, tr)
          /\ push_log' = Append(push_log, tr)
    /\ last_op' = "push"
    /\ UNCHANGED <<sample_n, sample_status, sample_slots, sample_out>>
    /\ UNCHANGED <<netVars, selVars, optVars, mainVars>>

OptOptimize ==
    /\ UNCHANGED ctlVars
    /\ UNCHANGED trainVars
    /\ UNCHANGED countVars
    /\ harness_calls < MaxCalls
    /\ harness_calls' = harness_calls + 1
    /\ optimize_model
    /\ last_op' = "optimize_model"
    /\ UNCHANGED <<memory, push_log, sample_n, sample_status, sample_slots, sample_out>>
    /\ UNCHANGED <<hyper, target_net, selVars, mainVars>>

OptSoftUpdate ==
    /\ UNCHANGED ctlVars
    /\ UNCHANGED trainVars
    /\ UNCHANGED countVars
    /\ harness_calls < MaxCalls
    /\ harness_calls' = harness_calls + 1
    /\ soft_update
    /\ last_op' = "soft_update"
    /\ UNCHANGED <<memory, push_log, sample_n, sample_status, sample_slots, sample_out>>
    /\ UNCHANGED <<hyper, opt_steps, selVars, mainVars>>
    /\ UNCHANGED <<opt_result, batches_drawn, batch_terminal, loss_finite, bootstrap>>

NextOptimize == OptPush \/ OptOptimize \/ OptSoftUpdate

SpecOptimize == InitOptimize /\ [][NextOptimize]_vars

(***************************************************************************)
(* The driver specification: Agent.main(num_episodes) against an           *)
(* environment that answers reset() with an observation and step(action)   *)
(* with (observation, reward, terminated, truncated).  An exception of a   *)
(* callee is not caught by main: the driver ends at "crashed".             *)
(***************************************************************************)
\* the observations and the rewards the environment returns in the model
EnvObs == {1}

EnvRewards == {WeightOne}

InitMain ==
    /\ InitNoTrain
    /\ InitReplay
    /\ InitController
    /\ InitAgent
    /\ hyper = Defaults
    /\ pc = "for_episode"
    /\ num_episodes \in 0..MaxEpisodes
    /\ i_episode = 0
    /\ t = 0
    /\ state = None
    /\ reward = 0
    /\ terminated = FALSE
    /\ truncated = FALSE
    /\ next_state = None
    /\ done_log = <<>>

\* for i_episode in range(num_episodes): state = env.reset(); for t in count():
MainReset ==
    /\ UNCHANGED ctlVars
    /\ UNCHANGED trainVars
    /\ resets' = resets + 1
    /\ UNCHANGED <<env_steps, soft_updates>>
    /\ pc = "for_episode"
    /\ i_episode < num_episodes
    /\ \E s \in EnvObs : state' = Tensor(s)
    /\ t' = 0
    /\ pc' = "select_action"
    /\ last_op' = "reset"
    /\ UNCHANGED <<memory, push_log, sample_n, sample_status, sample_slots, sample_out>>
    /\ UNCHANGED <<netVars, selVars, optVars>>
    /\ UNCHANGED <<num_episodes, i_episode, reward, terminated, truncated, next_state,
                   episode_durations, done_log>>

\* the episode loop is exhausted: print('Complete')
MainComplete ==
    /\ UNCHANGED ctlVars
    /\ UNCHANGED trainVars
    /\ UNCHANGED countVars
    /\ pc = "for_episode"
    /\ i_episode >= num_episodes
    /\ pc' = "complete"
    /\ last_op' = "complete"
    /\ UNCHANGED <<memory, push_log, sample_n, sample_status, sample_slots, sample_out>>
    /\ UNCHANGED <<netVars, selVars, optVars>>
    /\ UNCHANGED <<num_episodes, i_episode, t, state, reward, terminated, truncated,
                   next_state, episode_durations, done_log>>

\* action = cls.select_action(state)
MainSelect ==
    /\ UNCHANGED ctlVars
    /\ UNCHANGED trainVars
    /\ UNCHANGED countVars
    /\ pc = "select_action"
    /\ \E u \in USamples : select_action(state[1], u)
    /\ pc' = "env_step"
    /\ last_op' = "select_action"
    /\ UNCHANGED <<memory, push_log, sample_n, sample_status, sample_slots, sample_out>>
    /\ UNCHANGED <<netVars, optVars>>
    /\ UNCHANGED <<num_episodes, i_episode, t, state, reward, terminated, truncated,
                   next_state, episode_durations, done_log>>

\* observation, reward, terminated, truncated, _ = env.step(action.item())
\* next_state = None if terminated else the observation's tensor
MainEnvStep ==
    /\ UNCHANGED ctlVars
    /\ UNCHANGED trainVars
    /\ env_steps' = env_steps + 1
    /\ UNCHANGED <<resets, soft_updates>>
    /\ pc = "env_step"
    /\ \E observation \in EnvObs, r \in EnvRewards, term \in BOOLEAN, trunc \in BOOLEAN :
          /\ steps_done >= MaxSteps => (term \/ trunc)
          /\ reward' = r
          /\ terminated' = term
          /\ truncated' = trunc
          /\ next_state' = IF term THEN None ELSE Tensor(observation)
          /\ done_log' = IF term \/ trunc THEN Append(done_log, t + 1) ELSE done_log
    /\ pc' = "push"
    /\ last_op' = "env_step"
    /\ UNCHANGED <<memory, push_log, sample_n, sample_status, sample_slots, sample_out>>
    /\ UNCHANGED <<netVars, selVars, optVars>>
    /\ UNCHANGED <<num_episodes, i_episode, t, state, episode_durations>>

\* cls.memory.push(state, action, next_state, reward); state = next_state
MainPush ==
    /\ UNCHANGED ctlVars
    /\ UNCHANGED trainVars
    /\ UNCHANGED countVars
    /\ pc = "push"
    /\ LET tr == Transition(state, sel_action, next_state, reward) IN
          /\ memory' = push(memory, tr)
          /\ push_log' = Append(push_log, tr)
    /\ state' = next_state
    /\ pc' = "optimize_model"
    /\ last_op' = "push"
    /\ UNCHANGED <<sample_n, sample_status, sample_slots, sample_out>>
    /\ UNCHANGED <<netVars, selVars, optVars>>
    /\ UNCHANGED <<num_episodes, i_episode, t, reward, terminated, truncated, next_state,
                   episode_durations, done_log>>

\* cls.optimize_model()
MainOptimize ==
    /\ UNCHANGED ctlVars
    /\ UNCHANGED trainVars
    /\ UNCHANGED countVars
    /\ pc = "optimize_model"
    /\ optimize_model
    /\ pc' = IF opt_result' \in {"RuntimeError", "ValueError"} THEN "crashed" ELSE "soft_update"
    /\ last_op' = "optimize_model"
    /\ UNCHANGED <<memory, push_log, sample_n, sample_status, sample_slots, sample_out>>
    /\ UNCHANGED <<hyper, target_net, selVars, harness_calls>>
    /\ UNCHANGED <<num_episodes, i_episode, t, state, reward, terminated, truncated,
                   next_state, episode_durations, done_log>>

\* the soft update of the target network's weights
MainSoftUpdate ==
    /\ UNCHANGED ctlVars
    /\ UNCHANGED trainVars
    /\ soft_updates' = soft_updates + 1
    /\ UNCHANGED <<resets, env_steps>>
    /\ pc = "soft_update"
    /\ soft_update
    /\ pc' = "if_done"
    /\ last_op' = "soft_update"
    /\ UNCHANGED <<memory, push_log, sample_n, sample_status, sample_slots, sample_out>>
    /\ UNCHANGED <<hyper, opt_steps, selVars, optVars>>
    /\ UNCHANGED <<num_episodes, i_episode, t, state, reward, terminated, truncated,
                   next_state, episode_durations, done_log>>

DurationZeroBased(step) == step

\* the entry appended for an episode that ended on the step of index step
Duration(step) == step + 1

\* if done: cls.episode_durations.append(t + 1); break  (then the next episode)
MainEpisodeEnd ==
    /\ UNCHANGED ctlVars
    /\ UNCHANGED trainVars
    /\ UNCHANGED countVars
    /\ pc = "if_done"
    /\ terminated \/ truncated
    /\ episode_durations' = Append(episode_durations, Duration(t))
    /\ i_episode' = i_episode + 1
    /\ pc' = "for_episode"
    /\ last_op' = "episode_end"
    /\ UNCHANGED <<memory, push_log, sample_n, sample_status, sample_slots, sample_out>>
    /\ UNCHANGED <<netVars, selVars, optVars>>
    /\ UNCHANGED <<num_episodes, t, state, reward, terminated, truncated, next_state, done_log>>

\* not done: the next iteration of for t in count()
MainNextStep ==
    /\ UNCHANGED ctlVars
    /\ UNCHANGED trainVars
    /\ UNCHANGED countVars
    /\ pc = "if_done"
    /\ ~(terminated \/ truncated)
    /\ t' = t + 1
    /\ pc' = "select_action"
    /\ last_op' = "next_step"
    /\ UNCHANGED <<memory, push_log, sample_n, sample_status, sample_slots, sample_out>>
    /\ UNCHANGED <<netVars, selVars, optVars>>
    /\ UNCHANGED <<num_episodes, i_episode, state, reward, terminated, truncated, next_state,
                   episode_durations, done_log>>

NextMain ==
    \/ MainReset
    \/ MainComplete
    \/ MainSelect
    \/ MainEnvStep
    \/ MainPush
    \/ MainOptimize
    \/ MainSoftUpdate
    \/ MainEpisodeEnd
    \/ MainNextStep

SpecMain == InitMain /\ [][NextMain]_vars

(***************************************************************************)
(* The controller specification: a constructed SUMOController whose        *)
(* methods are called in any order once the simulation was started.  A     *)
(* call of set_traffic_phase or step runs its loop one iteration at a      *)
(* time; every iteration reads all detectors.  The simulator may end       *)
(* (report no expected vehicles) after any of its steps, and stays ended   *)
(* until it is started again.                                              *)
(***************************************************************************)
\* the step_time the controller is constructed with
StepTimes == {DefaultStepTime}

InitSUMO ==
    /\ InitReplay
    /\ InitAgent
    /\ InitIdle
    /\ hyper = Defaults
    /\ \E st \in StepTimes : ConstructController(st)

callVars == <<caller, req_phase, steps_left, step_ret, call_prev>>

simVars == <<connection, signal, sim_over>>

ghostVars == <<en_total, ex_total, exit_seen, drained, detected>>

\* start(): traci.start raises TraCIException when the connection is already active
start ==
    /\ cpc = "idle"
    /\ IF connection = "open"
       THEN \* except TraCIException: the accumulators are reset, traci.load
            /\ detector_counts' = EmptyDict
            /\ en_total' = [e \in DOMAIN en_total |-> 0]
            /\ ex_total' = [e \in DOMAIN ex_total |-> 0]
            /\ UNCHANGED connection
       ELSE /\ connection' = "open"
            /\ UNCHANGED <<detector_counts, en_total, ex_total>>
    /\ signal' = "program"
    /\ sim_over' = FALSE
    /\ call_log' = << Event("start", "", 0) >>
    /\ UNCHANGED <<step_time, prev_phase, throughput, cpc, callVars, ret, got,
                   exit_seen, drained, detected, commanded>>
    /\ UNCHANGED agentVars

\* shutdown(): traci.close()
shutdown ==
    /\ cpc = "idle"
    /\ connection = "open"
    /\ connection' = "closed"
    /\ call_log' = << Event("shutdown", "", 0) >>
    /\ UNCHANGED <<step_time, prev_phase, detector_counts, throughput, signal,
                   sim_over, cpc, callVars, ret, got, ghostVars, commanded>>
    /\ UNCHANGED agentVars

\* set_traffic_phase(phase_index), up to its call of self.step(3)
set_traffic_phase ==
    /\ cpc = "idle"
    /\ connection = "open"
    /\ \E phase_index \in 0..(Len(SIMULATION_PHASES) - 1) :
          /\ req_phase' = phase_index
          /\ call_prev' = prev_phase
          /\ IF PhaseChanges(prev_phase, phase_index)
             THEN /\ signal' = PyIndex(SIMULATION_AMBER_PHASES, prev_phase)
                  /\ commanded' = signal'
                  /\ caller' = "set_phase_changed"
                  /\ call_log' = << Event("set_traffic_phase", "", phase_index),
                                    Event("setRedYellowGreenState", signal', 0),
                                    Event("step", "", 3) >>
             ELSE /\ signal' = signal
                  /\ commanded' = commanded
                  /\ caller' = "set_phase_same"
                  /\ call_log' = << Event("set_traffic_phase", "", phase_index),
                                    Event("step", "", 3) >>
    /\ steps_left' = StepsFor(3, step_time)
    /\ cpc' = "step"
    /\ UNCHANGED <<connection, step_time, prev_phase, detector_counts, throughput,
                   sim_over, step_ret, ret, got, ghostVars>>
    /\ UNCHANGED agentVars

\* step(seconds) called on its own (the default seconds = 1), up to its loop
step ==
    /\ cpc = "idle"
    /\ connection = "open"
    /\ \E seconds \in {1} :
          /\ steps_left' = StepsFor(seconds, step_time)
          /\ call_log' = << Event("step", "", seconds) >>
    /\ caller' = "step"
    /\ cpc' = "step"
    /\ UNCHANGED <<simVars, step_time, prev_phase, detector_counts, throughput,
                   req_phase, step_ret, call_prev, ret, got, ghostVars, commanded>>
    /\ UNCHANGED agentVars

\* one iteration of the loop of step: update_detectors(), then simulationStep() or return False
step_iteration ==
    /\ cpc = "step"
    /\ steps_left > 0
    /\ \E readings \in ReadingVectors(MaxVehicles - detected) :
          /\ detector_counts' = UpdateCounts(detector_counts, readings, 1)
          /\ throughput' = throughput + ThroughputGain(readings, 1)
          /\ en_total' = [e \in DOMAIN en_total |-> en_total[e] + EdgeReadings(readings, e, 1, 0)]
          /\ ex_total' = [e \in DOMAIN ex_total |-> ex_total[e] + EdgeReadings(readings, e, 0, 0)]
          /\ exit_seen' = exit_seen
                          + SumSeq([e \in DOMAIN ex_total |-> EdgeReadings(readings, e, 0, 0)], 1)
          /\ detected' = detected + SumSeq(readings, 1)
    /\ IF ~sim_over
       THEN \* traci.simulationStep()
            /\ sim_over' \in BOOLEAN
            /\ steps_left' = steps_left - 1
            /\ call_log' = call_log \o << Event("update_detectors", "", 0),
                                          Event("simulationStep", "", 0) >>
            /\ UNCHANGED <<cpc, step_ret>>
       ELSE \* return False
            /\ step_ret' = FALSE
            /\ cpc' = "after_step"
            /\ call_log' = call_log \o << Event("update_detectors", "", 0),
                                          Event("return", "False", 0) >>
            /\ UNCHANGED <<sim_over, steps_left>>
    /\ UNCHANGED <<connection, step_time, prev_phase, signal, caller, req_phase,
                   call_prev, ret, got, drained, commanded>>
    /\ UNCHANGED agentVars

\* the loop of step is exhausted: return True
step_returns ==
    /\ cpc = "step"
    /\ steps_left = 0
    /\ step_ret' = TRUE
    /\ cpc' = "after_step"
    /\ call_log' = call_log \o << Event("return", "True", 0) >>
    /\ UNCHANGED <<simVars, step_time, prev_phase, detector_counts, throughput,
                   caller, req_phase, steps_left, call_prev, ret, got, ghostVars,
                   commanded>>
    /\ UNCHANGED agentVars

\* prev_phase left as it was when the new green is commanded
PrevPhaseAfterChangeKept(prev, phase_index) == prev

\* self.prev_phase = phase_index
PrevPhaseAfterChange(prev, phase_index) == phase_index

\* what follows f = self.step(3) in set_traffic_phase, or the return of a step called on its own
after_step ==
    /\ cpc = "after_step"
    /\ IF caller = "set_phase_changed"
       THEN /\ signal' = PyIndex(SIMULATION_PHASES, req_phase)
            /\ commanded' = signal'
            /\ prev_phase' = PrevPhaseAfterChange(prev_phase, req_phase)
            /\ call_log' = Append(call_log, Event("setRedYellowGreenState", signal', 0))
       ELSE UNCHANGED <<signal, commanded, prev_phase, call_log>>
    /\ ret' = step_ret
    /\ cpc' = "idle"
    /\ UNCHANGED <<connection, step_time, detector_counts, throughput, sim_over, callVars, got, ghostVars>>
    /\ UNCHANGED agentVars

\* get_throughput without its reset
ThroughputAfterReadKept(thr) == thr

\* self.throughput = 0
ThroughputAfterRead(thr) == 0

\* get_throughput(): result = self.throughput; self.throughput = 0; return result
get_throughput ==
    /\ cpc = "idle"
    /\ got' = throughput
    /\ throughput' = ThroughputAfterRead(throughput)
    /\ drained' = drained + throughput
    /\ call_log' = << Event("get_throughput", "", 0) >>
    /\ UNCHANGED <<simVars, step_time, prev_phase, detector_counts, cpc, callVars,
                   ret, en_total, ex_total, exit_seen, detected, commanded>>
    /\ UNCHANGED agentVars

NextSUMO ==
    \/ start
    \/ shutdown
    \/ set_traffic_phase
    \/ step
    \/ step_iteration
    \/ step_returns
    \/ after_step
    \/ get_throughput

SpecSUMO == InitSUMO /\ [][NextSUMO]_vars


(***************************************************************************)
(* The training-run specification: train(stack_name, load_nets,            *)
(* num_episodes) of main.py.  init_agent looks the architecture up, builds *)
(* the two networks and loads the checkpoints or copies the policy weights *)
(* into the target; train then constructs the Environment and runs the     *)
(* episode driver.  The modules networks and environment are not among the *)
(* sources: stacks holds the default architecture of run.py, and the       *)
(* driver is Agent.main.                                                   *)
(***************************************************************************)
\* networks.stacks: the known architecture names
stacks == {"v7"}

\* the inputs of a run: an architecture name, known or not
StackNames == {"v7", "v0"}

\* the number of episodes of a run
TrainEpisodes == {0, 1}

\* the weights the two checkpoint files hold
Checkpoint == [policy |-> <<-2000, 3000, 3000, 1000>>, target |-> <<0, 0, 0, 0>>]

\* stacks[stack_name] raises KeyError
UnknownStack(name) == name \notin stacks

\* the try block of init_agent, were only the first load to count
LoadFailsPolicyOnly(cp, ct) == cp # "ok"

\* the try block of init_agent: either load raising ends in exit()
LoadFails(cp, ct) == cp # "ok" \/ ct # "ok"

InitTrain ==
    /\ InitReplay
    /\ InitController
    /\ policy_net = None
    /\ target_net = None
    /\ hyper = Defaults
    /\ opt_steps = 0
    /\ steps_done = 0
    /\ select_calls = 0
    /\ sel_state = 0
    /\ sel_u = -1
    /\ sel_branch = "none"
    /\ sel_action = -1
    /\ harness_calls = 0
    /\ opt_result = "none"
    /\ batches_drawn = 0
    /\ batch_terminal = FALSE
    /\ loss_finite = TRUE
    /\ bootstrap = {}
    /\ episode_durations = <<>>
    /\ pc = "init_agent"
    /\ num_episodes \in TrainEpisodes
    /\ i_episode = 0
    /\ t = 0
    /\ state = None
    /\ reward = 0
    /\ terminated = FALSE
    /\ truncated = FALSE
    /\ next_state = None
    /\ done_log = <<>>
    /\ stack_name \in StackNames
    /\ load_nets \in BOOLEAN
    /\ ckpt_policy \in {"ok", "fails"}
    /\ ckpt_target \in {"ok", "fails"}
    /\ agent_made = FALSE
    /\ env_made = FALSE
    /\ InitCounts

\* agent = init_agent(stack_name, load_nets)
TrainInitAgent ==
    /\ pc = "init_agent"
    /\ IF UnknownStack(stack_name)
       THEN /\ pc' = "KeyError"
            /\ UNCHANGED <<policy_net, target_net, agent_made>>
       ELSE IF load_nets
       THEN IF LoadFails(ckpt_policy, ckpt_target)
            THEN \* except Exception: exit()
                 /\ pc' = "exit"
                 /\ UNCHANGED <<policy_net, target_net, agent_made>>
            ELSE /\ policy_net' = Checkpoint.policy
                 /\ target_net' = Checkpoint.target
                 /\ agent_made' = TRUE
                 /\ pc' = "Environment"
       ELSE /\ \E net \in NetInits :
                  /\ policy_net' = net
                  /\ target_net' = net
            /\ agent_made' = TRUE
            /\ pc' = "Environment"
    /\ last_op' = "init_agent"
    /\ UNCHANGED <<memory, push_log, sample_n, sample_status, sample_slots, sample_out>>
    /\ UNCHANGED <<hyper, opt_steps, selVars, optVars>>
    /\ UNCHANGED <<num_episodes, i_episode, t, state, reward, terminated, truncated,
                   next_state, episode_durations, done_log>>
    /\ UNCHANGED <<stack_name, load_nets, ckpt_policy, ckpt_target, env_made>>
    /\ UNCHANGED countVars
    /\ UNCHANGED ctlVars

\* env = Environment(); agent.train(env, num_episodes) begins
TrainEnvironment ==
    /\ pc = "Environment"
    /\ env_made' = TRUE
    /\ pc' = "for_episode"
    /\ last_op' = "Environment"
    /\ UNCHANGED <<memory, push_log, sample_n, sample_status, sample_slots, sample_out>>
    /\ UNCHANGED <<netVars, selVars, optVars>>
    /\ UNCHANGED <<num_episodes, i_episode, t, state, reward, terminated, truncated,
                   next_state, episode_durations, done_log>>
    /\ UNCHANGED <<stack_name, load_nets, ckpt_policy, ckpt_target, agent_made>>
    /\ UNCHANGED countVars
    /\ UNCHANGED ctlVars

NextTrain ==
    \/ TrainInitAgent
    \/ TrainEnvironment
    \/ MainReset
    \/ MainComplete
    \/ MainSelect
    \/ MainEnvStep
    \/ MainPush
    \/ MainOptimize
    \/ MainSoftUpdate
    \/ MainEpisodeEnd
    \/ MainNextStep

SpecTrain == InitTrain /\ [][NextTrain]_vars

(***************************************************************************)
(* C1: for a ReplayMemory of capacity K, after m pushes the buffer never   *)
(* holds more than K entries, holds exactly min(m, K) entries, and these   *)
(* are the min(m, K) most recently pushed Transitions in insertion order   *)
(* (a push at capacity evicts the oldest entry and nothing else).          *)
(***************************************************************************)
Min(a, b) == IF a < b THEN a ELSE b

LastPushed(k) == SubSeq(push_log, Len(push_log) - k + 1, Len(push_log))

C1_FifoEviction ==
    /\ Len(memory) <= Capacity
    /\ Len(memory) = Min(Len(push_log), Capacity)
    /\ memory = LastPushed(Min(Len(push_log), Capacity))

\* two pushes beyond the capacity have been made, of different Transitions
C1_Witness ==
    /\ Len(push_log) >= Capacity + 2
    /\ Len(memory) = Capacity
    /\ push_log[1] # push_log[Len(push_log)]
    /\ memory[Len(memory)] = push_log[Len(push_log)]

(***************************************************************************)
(* C2: sample(n) with n <= len(memory) returns exactly n entries, taken    *)
(* from n distinct buffer slots of the current contents; with              *)
(* n > len(memory) it raises instead of returning a shorter batch; either  *)
(* way the buffer is left as it was.                                       *)
(***************************************************************************)
C2_SampleContract ==
    [][last_op' = "sample" =>
          /\ memory' = memory
          /\ IF sample_n' <= Len(memory)
             THEN /\ sample_status' = "ok"
                  /\ Len(sample_out') = sample_n'
                  /\ Len(sample_slots') = sample_n'
                  /\ \A i \in 1..sample_n' :
                        /\ sample_slots'[i] \in 1..Len(memory)
                        /\ sample_out'[i] = memory[sample_slots'[i]]
                  /\ \A i, j \in 1..sample_n' : i # j => sample_slots'[i] # sample_slots'[j]
             ELSE /\ sample_status' = "ValueError"
                  /\ sample_out' = <<>>]_vars

\* a full buffer was sampled whole, its entries returned out of buffer order
C2_Witness ==
    /\ last_op = "sample"
    /\ Len(memory) = Capacity
    /\ sample_status = "ok"
    /\ sample_n = Capacity
    /\ sample_slots[1] = Capacity

(***************************************************************************)
(* C3: optimize_model called while len(memory) < BATCH_SIZE is a no-op: it *)
(* returns without error, draws no sample, and leaves the policy weights,  *)
(* the target weights, the optimizer state and the replay memory as they   *)
(* were.                                                                   *)
(***************************************************************************)
C3_SkipIsNoOp ==
    [][(last_op' = "optimize_model" /\ Len(memory) < BATCH_SIZE) =>
          /\ opt_result' = "skipped"
          /\ batches_drawn' = batches_drawn
          /\ policy_net' = policy_net
          /\ target_net' = target_net
          /\ opt_steps' = opt_steps
          /\ memory' = memory]_vars

\* optimize_model was called on a buffer one short of a batch
C3_Witness ==
    /\ last_op = "optimize_model"
    /\ opt_result = "skipped"
    /\ Len(memory) = BATCH_SIZE - 1

(***************************************************************************)
(* C6: with the exploration rate forced to 0, select_action returns the    *)
(* arg-max action of the policy network for the given state for every      *)
(* uniform draw u in [0, 1), u = 0 included; it never takes the            *)
(* random-action branch.                                                   *)
(***************************************************************************)
C6_GreedyWhenEpsZero ==
    (sel_branch # "none" /\ hyper.EPS_START = 0 /\ hyper.EPS_END = 0) =>
        /\ sel_branch = "exploit"
        /\ sel_action = ArgMax(Forward(policy_net, sel_state))

(***************************************************************************)
(* C7: when the batch sampled by optimize_model holds terminal transitions *)
(* only, the optimizer step completes and the bootstrapped target of every *)
(* entry is its reward exactly (no GAMMA term).                            *)
(***************************************************************************)
C7_TerminalBatchTargets ==
    (last_op = "optimize_model" /\ opt_result \in {"stepped", "RuntimeError"} /\ batch_terminal) =>
        /\ opt_result = "stepped"
        /\ bootstrap = {0}

(***************************************************************************)
(* C8: one soft update with TAU = 1 makes every target weight equal to the *)
(* policy weight of the same key; a soft update with TAU = 0 leaves every  *)
(* target weight as it was (hence so does any number of them); neither     *)
(* changes the policy weights.                                             *)
(***************************************************************************)
C8_SoftUpdateBoundary ==
    [][last_op' = "soft_update" =>
          /\ policy_net' = policy_net
          /\ hyper.TAU = Scale => target_net' = policy_net
          /\ hyper.TAU = 0 => target_net' = target_net]_vars

\* with TAU = 1, the target took over weights the optimizer had moved
C8_Witness ==
    /\ last_op = "soft_update"
    /\ hyper.TAU = Scale
    /\ opt_steps >= 1
    /\ target_net = policy_net
    /\ target_net \notin NetInits

(***************************************************************************)
(* C5: steps_done grows by exactly 1 on every select_action call, on the   *)
(* exploit branch and on the explore branch alike, and nothing else (push, *)
(* optimize_model, the soft update, an episode's end, env.reset) changes   *)
(* it; so it never decreases and equals the number of select_action calls. *)
(***************************************************************************)
C5_StepsDoneCountsSelects ==
    [][/\ pc = "select_action" => steps_done' = steps_done + 1
       /\ pc # "select_action" => steps_done' = steps_done
       /\ steps_done' = select_calls']_vars

\* a second episode is running, and its last select_action took the greedy branch
C5_Witness ==
    /\ i_episode >= 1
    /\ steps_done >= 2
    /\ sel_branch = "exploit"
    /\ pc = "soft_update"

(***************************************************************************)
(* C9: when the environment signals done on the k-th step of an episode,   *)
(* main appends exactly one entry equal to k to episode_durations for that *)
(* episode; entries are appended only when an episode completes and are    *)
(* never changed or removed afterwards.                                    *)
(***************************************************************************)
C9_DurationPerDoneEpisode ==
    /\ \A i \in 1..Len(episode_durations) :
          i <= Len(done_log) /\ episode_durations[i] = done_log[i]
    /\ pc \in {"for_episode", "complete", "crashed"} => episode_durations = done_log

(***************************************************************************)
(* C4: phase debounce of set_traffic_phase(p), for every sequence of       *)
(* requests: if p differs from prev_phase, exactly one amber string is     *)
(* commanded, then exactly one 3-second dwell elapses, then the green      *)
(* string phases[p] is commanded; if p equals prev_phase, no signal string *)
(* is commanded and exactly one 3-second dwell elapses.  No call produces  *)
(* more than one dwell, and the new green is never commanded before the    *)
(* amber dwell has elapsed.                                                *)
(***************************************************************************)
\* the places of the history of the last call where op happened
Places(op) == { i \in 1..Len(call_log) : call_log[i].op = op }

\* the last call is a set_traffic_phase call that has returned
SetPhaseReturned ==
    /\ cpc = "idle"
    /\ call_log # <<>>
    /\ call_log[1].op = "set_traffic_phase"

\* the simulated time, in milliseconds, that elapsed during the last call
Elapsed == Cardinality(Places("simulationStep")) * step_time

\* what the call commanded and in what order, the length of the dwell left aside
DebounceOrder ==
    /\ Cardinality(Places("step")) <= 1
    /\ SetPhaseReturned =>
          /\ Cardinality(Places("step")) = 1
          /\ Cardinality(Places("return")) = 1
          /\ \A i \in Places("step") : call_log[i].num = 3
          /\ IF call_prev # req_phase
             THEN \E am, dw, rt, gr \in 1..Len(call_log) :
                     /\ am < dw /\ dw < rt /\ rt < gr
                     /\ Places("setRedYellowGreenState") = {am, gr}
                     /\ Places("step") = {dw}
                     /\ Places("return") = {rt}
                     /\ \E k \in 1..Len(SIMULATION_AMBER_PHASES) :
                           call_log[am].str = SIMULATION_AMBER_PHASES[k]
                     /\ call_log[gr].str = SIMULATION_PHASES[req_phase + 1]
                     /\ \A i \in Places("simulationStep") : dw < i /\ i < rt
             ELSE Places("setRedYellowGreenState") = {}

\* C4 as stated: the dwell of every call lasts 3 simulated seconds
C4_PhaseDebounce ==
    /\ DebounceOrder
    /\ SetPhaseReturned => Elapsed = 3000

\* C4 as amended: the dwell is one step(3), int(3 / step_time) sub-steps long, which
\* the simulator running out of vehicles cuts short; the call then returns False
C4_PhaseDebounceOneDwell ==
    /\ DebounceOrder
    /\ SetPhaseReturned =>
          /\ ret => Cardinality(Places("simulationStep")) = StepsFor(3, step_time)
          /\ ~ret => /\ sim_over
                     /\ Cardinality(Places("simulationStep")) < StepsFor(3, step_time)

\* a request for another phase than the one that was green returned after a full dwell
C4_Witness ==
    /\ SetPhaseReturned
    /\ call_prev >= 0
    /\ call_prev # req_phase
    /\ prev_phase = req_phase
    /\ ret
    /\ Elapsed = 3000

(***************************************************************************)
(* C10: detector accounting.  For any sequence of per-sub-step detector    *)
(* readings, after update_detectors has processed them each edge           *)
(* accumulator equals the sum of the readings of that edge's entry         *)
(* detectors minus the sum of the readings of its exit detectors, the      *)
(* entry and the exit detector of an edge and lane update the same         *)
(* accumulator key, and the throughput accumulator has grown by the sum of *)
(* all exit-detector readings (get_throughput takes away what it returns). *)
(***************************************************************************)
C10_DetectorAccounting ==
    /\ \A e \in 1..Len(SIMULATION_EDGE_IDS) :
          Count(detector_counts, SIMULATION_EDGE_IDS[e]) = en_total[e] - ex_total[e]
    /\ DOMAIN detector_counts \subseteq { SIMULATION_EDGE_IDS[e] : e \in 1..Len(SIMULATION_EDGE_IDS) }
    /\ \A e \in 1..Len(SIMULATION_EDGE_IDS), lane_num \in Lanes :
          KeyOf(DetectorId(SIMULATION_EDGE_IDS[e], lane_num, <<"e", "n">>))
             = KeyOf(DetectorId(SIMULATION_EDGE_IDS[e], lane_num, <<"e", "x">>))
    /\ throughput + drained = exit_seen

\* an edge had vehicles entering and leaving, another had not, and throughput is undrained
C10_Witness ==
    /\ \E e, f \in 1..Len(SIMULATION_EDGE_IDS) :
          /\ en_total[e] >= 1 /\ ex_total[e] >= 1
          /\ en_total[f] = 0 /\ ex_total[f] = 0
          /\ Count(detector_counts, SIMULATION_EDGE_IDS[e]) = 0
    /\ throughput >= 1
    /\ drained = 0

(***************************************************************************)
(* C11: get_throughput is drain-on-read.  Each call returns the sum of the *)
(* exit-detector readings accumulated since the previous get_throughput    *)
(* call and resets the throughput accumulator to 0, so a second call with  *)
(* no update_detectors in between returns 0; the call leaves the edge      *)
(* accumulators and prev_phase unchanged.                                  *)
(***************************************************************************)
GetThroughputLog == << Event("get_throughput", "", 0) >>

C11_DrainOnRead ==
    [][(cpc = "idle" /\ call_log' = GetThroughputLog) =>
          /\ got' = exit_seen - drained
          /\ throughput' = 0
          /\ call_log = GetThroughputLog => got' = 0
          /\ detector_counts' = detector_counts
          /\ prev_phase' = prev_phase]_vars

\* get_throughput returned exit readings, with vehicles still counted on an edge
C11_Witness ==
    /\ cpc = "idle"
    /\ call_log = GetThroughputLog
    /\ got >= 1
    /\ throughput = 0
    /\ prev_phase >= 0
    /\ \E k \in DOMAIN detector_counts : detector_counts[k] >= 1

(***************************************************************************)
(* C12: parameter ownership inside the training loop.  The policy          *)
(* parameters change only in optimize_model and the target parameters only *)
(* in the soft update: select_action, memory.push, the sampling and the    *)
(* soft update leave the policy parameters unchanged, and select_action    *)
(* and optimize_model leave the target parameters unchanged.               *)
(***************************************************************************)
C12_ParameterOwnership ==
    [][/\ policy_net' # policy_net => (pc = "optimize_model" /\ opt_result' = "stepped")
       /\ target_net' # target_net => pc = "soft_update"
       /\ pc \in {"select_action", "push", "soft_update"} => policy_net' = policy_net
       /\ pc \in {"select_action", "push", "optimize_model"} => target_net' = target_net]_vars

\* the optimizer has moved the policy weights and a soft update then moved the target's
C12_Witness ==
    /\ pc = "if_done"
    /\ opt_steps >= 1
    /\ policy_net \notin NetInits
    /\ target_net \notin NetInits
    /\ target_net # policy_net

(***************************************************************************)
(* C13: every Transition the episode driver stores has next_state = None   *)
(* if and only if it is the last transition of its episode (the step on    *)
(* which the environment signalled done, by terminated or by truncated);   *)
(* every non-final step of an episode stores a non-None next_state.        *)
(***************************************************************************)
C13_NextStateNoneIffLast ==
    pc = "optimize_model" =>
        (push_log[Len(push_log)].next_state = None <=> (terminated \/ truncated))

(***************************************************************************)
(* C14: configuration errors fail fast.  When init_agent is given an       *)
(* unknown architecture name, or load_nets is true and either checkpoint   *)
(* fails to load, the run stops inside init_agent before any Agent is      *)
(* returned: train creates no Environment and performs no environment      *)
(* step, no replay push and no optimizer step.                             *)
(***************************************************************************)
ConfigurationError ==
    \/ stack_name \notin stacks
    \/ load_nets /\ (ckpt_policy = "fails" \/ ckpt_target = "fails")

C14_ConfigErrorsFailFast ==
    (stack_name # "none" /\ ConfigurationError /\ pc # "init_agent") =>
        /\ pc \in {"KeyError", "exit"}
        /\ last_op = "init_agent"
        /\ ~agent_made
        /\ ~env_made
        /\ select_calls = 0
        /\ push_log = <<>>
        /\ batches_drawn = 0
        /\ opt_steps = 0

\* the policy checkpoint loaded, the target checkpoint did not, and the run has stopped
C14_Witness ==
    /\ pc = "exit"
    /\ stack_name \in stacks
    /\ load_nets
    /\ ckpt_policy = "ok"
    /\ ckpt_target = "fails"
    /\ num_episodes >= 1

(***************************************************************************)
(* C15: if the loss computed in optimize_model is non-finite, the          *)
(* optimizer step is skipped for that call: no gradient update is applied  *)
(* and the policy parameters after the call equal those before it.         *)
(***************************************************************************)
C15_NonFiniteLossSkipsStep ==
    [][(/\ last_op' = "optimize_model"
        /\ batches_drawn' > batches_drawn
        /\ opt_result' \notin {"ValueError", "RuntimeError"}
        /\ ~loss_finite') =>
          /\ policy_net' = policy_net
          /\ opt_steps' = opt_steps]_vars

(***************************************************************************)
(* C16: within every environment step of Agent.main the operations occur   *)
(* exactly once each and in the order select_action, env.step,             *)
(* memory.push, optimize_model, soft target update; the soft update is     *)
(* performed after every environment step, also when optimize_model was    *)
(* skipped for lack of data and on the final (done) step of an episode,    *)
(* and the episode-duration append happens only after that step's soft     *)
(* update.                                                                 *)
(***************************************************************************)
StepOrder ==
    /\ last_op' = "select_action" => last_op \in {"reset", "next_step"}
    /\ last_op' = "env_step" => last_op = "select_action"
    /\ last_op' = "push" => last_op = "env_step"
    /\ last_op' = "optimize_model" => last_op = "push"
    /\ last_op' = "soft_update" => last_op = "optimize_model"
    /\ last_op' \in {"episode_end", "next_step"} => last_op = "soft_update"
    /\ Len(episode_durations') > Len(episode_durations) => last_op = "soft_update"

\* every environment step has had its soft update once the step is over
SoftUpdatePerStep ==
    /\ soft_updates \in {env_steps - 1, env_steps}
    /\ pc \in {"if_done", "for_episode", "complete", "crashed"} => soft_updates = env_steps

C16_StepOrderWithSoftUpdate == [](SoftUpdatePerStep) /\ [][StepOrder]_vars

(***************************************************************************)
(* C17: in step(seconds), update_detectors runs exactly once per simulated *)
(* sub-step: every simulationStep call is immediately preceded by exactly  *)
(* one update_detectors call, whether the step was triggered by a phase    *)
(* change, a same-phase dwell or a direct step call; when the simulator    *)
(* reports no expected vehicles, step returns False at once without        *)
(* advancing the simulation or running further sub-steps, and otherwise    *)
(* returns True after int(seconds / step_time) sub-steps.                  *)
(***************************************************************************)
\* the seconds the step call recorded in the history of the last call was given
SecondsOfCall == call_log[CHOOSE i \in Places("step") : TRUE].num

C17_UpdatePerSubStep ==
    /\ \A i \in Places("simulationStep") :
          /\ i > 1 /\ call_log[i - 1].op = "update_detectors"
    /\ \A i \in Places("update_detectors") :
          /\ i > 1 /\ call_log[i - 1].op \in {"step", "simulationStep"}
          /\ i < Len(call_log) => call_log[i + 1].op \in {"simulationStep", "return"}
    /\ Cardinality(Places("update_detectors")) \in
          { Cardinality(Places("simulationStep")), Cardinality(Places("simulationStep")) + 1 }
    /\ \A i \in Places("return") :
          LET sub_steps == Cardinality({ j \in Places("simulationStep") : j < i }) IN
          IF call_log[i].str = "True"
          THEN /\ sub_steps = (SecondsOfCall * 1000) \div step_time
               /\ Cardinality(Places("update_detectors")) = sub_steps
               /\ cpc = "idle" => ret
          ELSE /\ call_log[i].str = "False"
               /\ sim_over
               /\ call_log[i - 1].op = "update_detectors"
               /\ sub_steps < (SecondsOfCall * 1000) \div step_time
               /\ Places("simulationStep") \subseteq 1..i
               /\ cpc = "idle" => ~ret
    /\ (cpc = "step" /\ ~sim_over) =>
          Cardinality(Places("simulationStep")) + steps_left = (SecondsOfCall * 1000) \div step_time

\* a same-phase dwell was cut short: two sub-steps ran, the third found no vehicles expected
C17_Witness ==
    /\ SetPhaseReturned
    /\ call_prev = req_phase
    /\ ~ret
    /\ Cardinality(Places("simulationStep")) = 2
    /\ Cardinality(Places("update_detectors")) = 3

(***************************************************************************)
(* C18: the per-edge detector accumulators are changed only by             *)
(* update_detectors between simulator (re)starts, and every start() call   *)
(* that (re)starts the simulator after it has already run, whether the     *)
(* previous run is still connected or was closed by shutdown(), leaves all *)
(* accumulators at zero before the first sub-step of the new run.          *)
(***************************************************************************)
StartLog == << Event("start", "", 0) >>

AllZero(counts) == \A k \in DOMAIN counts : counts[k] = 0

C18_AccumulatorsResetOnRestart ==
    [][/\ detector_counts' # detector_counts => (cpc = "step" \/ call_log' = StartLog)
       /\ (cpc = "idle" /\ call_log' = StartLog /\ connection # "none") =>
             AllZero(detector_counts')]_vars

(***************************************************************************)
(* C19: Agent.main(num_episodes = n), with an environment that ends every  *)
(* episode, terminates after exactly n episodes: env.reset is called       *)
(* exactly n times, each reset other than the first comes only after the   *)
(* previous episode signalled done, no env.step is issued for an episode   *)
(* after its done signal, and with n = 0 there is no reset, step, push,    *)
(* optimizer step or soft update and both networks are unchanged.          *)
(***************************************************************************)
\* main has ended: the loop is exhausted, or an exception left main
MainEnded == pc \in {"complete", "crashed"}

\* when main has ended, n episodes were reset and n episodes were completed
ExactlyNEpisodes ==
    /\ resets <= num_episodes
    /\ MainEnded => (resets = num_episodes /\ Len(episode_durations) = num_episodes)

\* with n = 0 nothing happened
NothingForZeroEpisodes ==
    num_episodes = 0 =>
        /\ resets = 0
        /\ env_steps = 0
        /\ push_log = <<>>
        /\ opt_steps = 0
        /\ soft_updates = 0

\* the episodes do not overlap, and no step follows the done signal of an episode
EpisodesInTurn ==
    /\ resets' # resets =>
          /\ resets = Len(episode_durations)
          /\ resets > 0 => (terminated \/ truncated)
    /\ env_steps' # env_steps =>
          /\ resets = Len(episode_durations) + 1
          /\ t > 0 => ~(terminated \/ truncated)
    /\ num_episodes = 0 => (policy_net' = policy_net /\ target_net' = target_net)

C19_ExactlyNEpisodes ==
    [](ExactlyNEpisodes /\ NothingForZeroEpisodes) /\ [][EpisodesInTurn]_vars

(***************************************************************************)
(* C20: at the end of every environment step of Agent.main, across all the *)
(* episodes of a run, len(memory) = min(steps_done, capacity): every       *)
(* select_action call is followed by exactly one push before the next      *)
(* select_action call, and the replay memory is never cleared or shrunk,   *)
(* at an episode boundary or elsewhere.                                    *)
(***************************************************************************)
\* main is between a select_action call and the push of its transition
BetweenSelectAndPush == pc \in {"env_step", "push"}

\* one push per select_action; after the push the memory holds min(steps_done, capacity)
OnePushPerSelect ==
    /\ Len(push_log) = IF BetweenSelectAndPush THEN steps_done - 1 ELSE steps_done
    /\ ~BetweenSelectAndPush => Len(memory) = Min(steps_done, Capacity)

\* no step of main makes the replay memory shorter
MemoryNeverShrinks == Len(memory') >= Len(memory)

C20_MemoryTracksSteps == [](OnePushPerSelect) /\ [][MemoryNeverShrinks]_vars

\* in the second episode the full memory dropped a transition of the first one
C20_Witness ==
    /\ pc = "if_done"
    /\ i_episode = 1
    /\ steps_done > Capacity
    /\ Len(memory) = Capacity
    /\ memory[Capacity] = push_log[steps_done]

(***************************************************************************)
(* C21: over a whole run of Agent.main the optimizer step is skipped on    *)
(* exactly the first BATCH_SIZE - 1 environment steps, counted across the  *)
(* episodes, and performs a sampled update on every environment step from  *)
(* the BATCH_SIZE-th onward: once len(memory) >= BATCH_SIZE holds it holds *)
(* forever, so the skip never recurs in a later episode.                   *)
(***************************************************************************)
\* the optimize_model call of the environment step of number env_steps has returned or raised
OptimizeOfStepDone == pc \in {"soft_update", "crashed"}

\* skipped on the steps before the BATCH_SIZE-th, a sampled update on the others
SkipOnlyWhileFilling ==
    OptimizeOfStepDone =>
        /\ env_steps < BATCH_SIZE => opt_result = "skipped"
        /\ env_steps >= BATCH_SIZE => opt_result = "stepped"
        /\ opt_steps = IF env_steps < BATCH_SIZE THEN 0 ELSE env_steps - BATCH_SIZE + 1

\* a memory that holds a batch holds one ever after
BatchStaysAvailable == Len(memory) >= BATCH_SIZE => Len(memory') >= BATCH_SIZE

C21_SkipOnlyFirstSteps == [](SkipOnlyWhileFilling) /\ [][BatchStaysAvailable]_vars

(***************************************************************************)
(* C22: vehicle conservation in SUMOController.  In every reachable state  *)
(* get_vehicle_count(), the sum of all the edge accumulators, equals the   *)
(* total of the entry-detector readings minus the total of the             *)
(* exit-detector readings processed since the accumulators were last       *)
(* reset, and the sum of all the values get_throughput ever returned plus  *)
(* the undrained throughput equals the total of the exit-detector readings *)
(* processed since construction.                                           *)
(***************************************************************************)
\* the readings of the entry detectors and of the exit detectors since the last reset
EnteredSinceReset == SumSeq(en_total, 1)

ExitedSinceReset == SumSeq(ex_total, 1)

C22_VehicleConservation ==
    /\ get_vehicle_count = EnteredSinceReset - ExitedSinceReset
    /\ drained + throughput = exit_seen
    /\ ExitedSinceReset <= exit_seen

\* a vehicle left and was drained, the accumulators were reset, then a vehicle entered
C22_Witness ==
    /\ ExitedSinceReset < exit_seen
    /\ drained >= 1
    /\ EnteredSinceReset >= 1
    /\ get_vehicle_count = 1

(***************************************************************************)
(* C23: whenever set_traffic_phase commands an amber string, the index     *)
(* that picks it (prev_phase) is a valid phase id in [0, number of phases) *)
(* and the amber string is the one of the phase that was green before the  *)
(* change; the sentinel -1 ("no phase yet set") never selects an amber     *)
(* string, the first request after construction included.                  *)
(***************************************************************************)
\* the phase ids
PhaseIds == 0..(Len(SIMULATION_PHASES) - 1)

\* this step is a set_traffic_phase call that commands an amber string
CommandsAmber == cpc = "idle" /\ cpc' = "step" /\ caller' = "set_phase_changed"

C23_AmberIndexIsPhase ==
    [][CommandsAmber =>
          /\ prev_phase \in PhaseIds
          /\ signal' = SIMULATION_AMBER_PHASES[prev_phase + 1]]_vars

(***************************************************************************)
(* C24: after any call set_traffic_phase(p) returns, prev_phase = p and    *)
(* the signal string most recently commanded to the simulator is the green *)
(* string phases[p], for every sequence of requests, and also when the     *)
(* simulation ran out of vehicles during the amber dwell (step returned    *)
(* False): the call then returns False but has committed the new green.    *)
(* The boolean returned is exactly the result of the single dwell step.    *)
(***************************************************************************)
\* the value the dwell step of the last call returned, as its history records it
DwellResult == call_log[CHOOSE i \in Places("return") : TRUE].str = "True"

C24_PhaseCommittedOnReturn ==
    SetPhaseReturned =>
        /\ prev_phase = req_phase
        /\ commanded = SIMULATION_PHASES[req_phase + 1]
        /\ Cardinality(Places("step")) = 1
        /\ Cardinality(Places("return")) = 1
        /\ ret = DwellResult

\* the simulation ran out of vehicles during the amber dwell of a change of phase
C24_Witness ==
    /\ SetPhaseReturned
    /\ call_prev >= 0
    /\ call_prev # req_phase
    /\ ~ret
    /\ Cardinality(Places("simulationStep")) < StepsFor(3, step_time)
    /\ prev_phase = req_phase
    /\ commanded = SIMULATION_PHASES[req_phase + 1]

=============================================================================
